---- MODULE Spec2Model ----
(***************************************************************************)
(* Golden-image uploader (package goldenimage, uploader.go): the network   *)
(* detector, the HTTP-source workflow with its ephemeral origin server,    *)
(* the DataVolume poll and the deferred cleanup, as one state machine.     *)
(***************************************************************************)
EXTENDS Integers, Sequences, FiniteSets, TLC

\* ---------------------------------------------------------------- bounds
\* longest list of network definitions a List call answers with
MaxItems == 2
\* polls the 120 s readiness window leaves room for (120 s / 2 s in the code)
MaxReadyPolls == 2
\* polls the 60 min import window leaves room for (60 min / 5 s in the code)
MaxImportPolls == 3
\* longest matchExpressions list of a sampled selector
MaxExprs == 2
\* calls of createServerPod and createServerService in a row
MaxStarts == 2
\* chunks of the largest image file io.Copy reads
MaxChunks == 2
\* largest file size GetPVCSize is applied to, in units of 2^29 bytes
MaxSizeUnits == 60

\* ------------------------------------------------------------- constants
\* uploader.go:131, the label key that marks a UDN-enabled namespace
MarkerKey == "k8s.ovn.org/primary-user-defined-network"
EnvKey == "env"
TierKey == "tier"
\* uploader.go:34-35
DVPhaseSucceeded == "Succeeded"
DVPhaseFailed == "Failed"

\* uploader.go:27-28: the one name of the origin pod and of its service
serverPodName == "mcs-image-server"
serverSvcName == "mcs-image-server"

\* uploader.go:592: 1024*1024*1024 bytes, in the units file sizes are counted
\* in (2^29 bytes, the step at which 1.2 * size falls on whole Gi)
UnitsPerGi == 2

\* a value of an unstructured object that is not a Go string
NonString == "<non-string>"
\* a map key or nested map that is absent (or has the wrong dynamic type)
Absent == "<absent>"

\* ------------------------------------------------------- label selectors
\* labels.Set: a function from the keys present to their values
EmptyLabels == [k \in {} |-> ""]

\* nsSelector["matchLabels"] -> labelSelector.MatchLabels: entries whose value
\* is not a string are dropped
ParseMatchLabels(ml) ==
    [k \in {x \in DOMAIN ml : ml[x] # NonString} |-> ml[k]]

\* one element of nsSelector["matchExpressions"] -> LabelSelectorRequirement:
\* a key or operator that is not a string stays the zero value "", values that
\* are not strings are dropped (an element that is no map is skipped by the
\* caller)
ParseRequirement(e) ==
    [key |-> IF e.key = NonString THEN "" ELSE e.key,
     operator |-> IF e.operator = NonString THEN "" ELSE e.operator,
     values |-> {v \in e.values : v # NonString}]

\* mutant of RequirementValid: values on Exists and DoesNotExist are let pass
RequirementValid_ValuesIgnored(r) ==
    /\ r.key # ""
    /\ r.operator \in {"In", "NotIn", "Exists", "DoesNotExist"}
    /\ r.operator \in {"In", "NotIn"} => r.values # {}

\* labels.NewRequirement's validation, as LabelSelectorAsSelector applies it
RequirementValid(r) ==
    /\ r.key # ""
    /\ r.operator \in {"In", "NotIn", "Exists", "DoesNotExist"}
    /\ r.operator \in {"In", "NotIn"} => r.values # {}
    /\ r.operator \in {"Exists", "DoesNotExist"} => r.values = {}

\* mutant of RequirementMatches: NotIn wants the key present
RequirementMatches_NotInNeedsKey(r, ls) ==
    CASE r.operator = "In" -> r.key \in DOMAIN ls /\ ls[r.key] \in r.values
      [] r.operator = "NotIn" -> r.key \in DOMAIN ls /\ ls[r.key] \notin r.values
      [] r.operator = "Exists" -> r.key \in DOMAIN ls
      [] r.operator = "DoesNotExist" -> r.key \notin DOMAIN ls
      [] OTHER -> FALSE

\* labels.Requirement.Matches
RequirementMatches(r, ls) ==
    CASE r.operator = "In" -> r.key \in DOMAIN ls /\ ls[r.key] \in r.values
      [] r.operator = "NotIn" -> r.key \notin DOMAIN ls \/ ls[r.key] \notin r.values
      [] r.operator = "Exists" -> r.key \in DOMAIN ls
      [] r.operator = "DoesNotExist" -> r.key \notin DOMAIN ls
      [] OTHER -> FALSE

\* selectorMatchesNamespace: spec["namespaceSelector"] parsed into a
\* LabelSelector, converted by LabelSelectorAsSelector (a conversion error is a
\* non-match) and matched against the namespace's labels
selectorMatchesNamespace(spec, nsLabels) ==
    IF ~spec.sel.present THEN FALSE
    ELSE LET matchLabels == ParseMatchLabels(spec.sel.matchLabels)
             maps == SelectSeq(spec.sel.matchExpressions, LAMBDA e : e.isMap)
             exprs == [i \in DOMAIN maps |-> ParseRequirement(maps[i])]
         IN  /\ \A i \in DOMAIN exprs : RequirementValid(exprs[i])
             /\ \A k \in DOMAIN matchLabels :
                    k \in DOMAIN nsLabels /\ nsLabels[k] = matchLabels[k]
             /\ \A i \in DOMAIN exprs : RequirementMatches(exprs[i], nsLabels)

\* ----------------------------------------------------------- the detector
\* mutant of hasPrimaryRole: the layer3 branches are missing
hasPrimaryRole_Layer2Only(spec) ==
    \/ spec.nl2 = "Primary"
    \/ spec.l2 = "Primary"

\* hasPrimaryRole: role == "Primary" under spec.network.layer2/layer3 or under
\* spec.layer2/layer3
hasPrimaryRole(spec) ==
    \/ spec.nl2 = "Primary"
    \/ spec.nl3 = "Primary"
    \/ spec.l2 = "Primary"
    \/ spec.l3 = "Primary"

\* the loop over cudnList.Items of namespaceHasPrimaryUDN: the first item with
\* a spec, a Primary role and a matching selector ends it with true
RECURSIVE scanCUDN(_, _)
scanCUDN(items, nsLabels) ==
    IF items = <<>> THEN FALSE
    ELSE LET cudn == Head(items)
         IN  IF ~cudn.hasSpec THEN scanCUDN(Tail(items), nsLabels)
             ELSE IF ~hasPrimaryRole(cudn) THEN scanCUDN(Tail(items), nsLabels)
             ELSE IF selectorMatchesNamespace(cudn, nsLabels) THEN TRUE
             ELSE scanCUDN(Tail(items), nsLabels)

\* the loop over udnList.Items of checkNamespaceScopedUDN
RECURSIVE scanUDN(_)
scanUDN(items) ==
    IF items = <<>> THEN FALSE
    ELSE LET udn == Head(items)
         IN  IF ~udn.hasSpec THEN scanUDN(Tail(items))
             ELSE IF hasPrimaryRole(udn) THEN TRUE
             ELSE scanUDN(Tail(items))

\* mutant of checkNamespaceScopedUDN: NotFound is returned like any error
checkNamespaceScopedUDN_NotFoundIsError(udnResp) ==
    IF udnResp.status \in {"NotFound", "Error"}
    THEN [val |-> FALSE, err |-> "listing UDNs", calls |-> <<"listUDN">>]
    ELSE [val |-> scanUDN(udnResp.items), err |-> "nil", calls |-> <<"listUDN">>]

\* checkNamespaceScopedUDN: [val, err, calls] for the answer udnResp of the
\* List call on userdefinednetworks
checkNamespaceScopedUDN(udnResp) ==
    IF udnResp.status = "NotFound"
    THEN [val |-> FALSE, err |-> "nil", calls |-> <<"listUDN">>]
    ELSE IF udnResp.status = "Error"
    THEN [val |-> FALSE, err |-> "listing UDNs", calls |-> <<"listUDN">>]
    ELSE [val |-> scanUDN(udnResp.items), err |-> "nil", calls |-> <<"listUDN">>]

\* mutant of hasUDNLabel: the label fast path is missing
hasUDNLabel_Always(nsLabels) == TRUE

\* namespaceHasPrimaryUDN, line 131: the namespace carries the UDN label
hasUDNLabel(nsLabels) == MarkerKey \in DOMAIN nsLabels

\* mutant of namespaceHasPrimaryUDN: the namespace-scoped definitions are
\* listed before the cluster-scoped ones are looked at
namespaceHasPrimaryUDN_ListsBoth(nsResp, cudnResp, udnResp) ==
    IF nsResp.err
    THEN [val |-> FALSE, err |-> "getting namespace", calls |-> <<"getNamespace">>]
    ELSE IF ~hasUDNLabel(nsResp.labels)
    THEN [val |-> FALSE, err |-> "nil", calls |-> <<"getNamespace">>]
    ELSE IF cudnResp.status = "Error"
    THEN [val |-> FALSE, err |-> "listing CUDNs",
          calls |-> <<"getNamespace", "listCUDN">>]
    ELSE LET r == checkNamespaceScopedUDN(udnResp)
             c == cudnResp.status = "ok" /\ scanCUDN(cudnResp.items, nsResp.labels)
         IN  [val |-> r.err = "nil" /\ (c \/ r.val), err |-> r.err,
              calls |-> <<"getNamespace", "listCUDN">> \o r.calls]

\* namespaceHasPrimaryUDN: [val, err, calls] for the answers of the API to the
\* namespace Get and the two List calls; calls are the requests it issued
namespaceHasPrimaryUDN(nsResp, cudnResp, udnResp) ==
    IF nsResp.err
    THEN [val |-> FALSE, err |-> "getting namespace", calls |-> <<"getNamespace">>]
    ELSE IF ~hasUDNLabel(nsResp.labels)
    THEN [val |-> FALSE, err |-> "nil", calls |-> <<"getNamespace">>]
    ELSE IF cudnResp.status = "NotFound"
    THEN LET r == checkNamespaceScopedUDN(udnResp)
         IN  [r EXCEPT !.calls = <<"getNamespace", "listCUDN">> \o r.calls]
    ELSE IF cudnResp.status = "Error"
    THEN [val |-> FALSE, err |-> "listing CUDNs",
          calls |-> <<"getNamespace", "listCUDN">>]
    ELSE IF scanCUDN(cudnResp.items, nsResp.labels)
    THEN [val |-> TRUE, err |-> "nil", calls |-> <<"getNamespace", "listCUDN">>]
    ELSE LET r == checkNamespaceScopedUDN(udnResp)
         IN  [r EXCEPT !.calls = <<"getNamespace", "listCUDN">> \o r.calls]

\* ------------------------------------------------------- sample API data
Sel(ml, me) == [present |-> TRUE, matchLabels |-> ml, matchExpressions |-> me]
NoSel == [present |-> FALSE, matchLabels |-> EmptyLabels, matchExpressions |-> <<>>]
Expr(k, op, vs) == [isMap |-> TRUE, key |-> k, operator |-> op, values |-> vs]
Def(nl2, nl3, l2, l3, sel) ==
    [hasSpec |-> TRUE, nl2 |-> nl2, nl3 |-> nl3, l2 |-> l2, l3 |-> l3, sel |-> sel]
\* an item whose "spec" is missing or is not a map
NoSpecDef ==
    [hasSpec |-> FALSE, nl2 |-> "Primary", nl3 |-> Absent, l2 |-> Absent,
     l3 |-> Absent, sel |-> Sel(EmptyLabels, <<>>)]

SelEverything == Sel(EmptyLabels, <<>>)
SelEnvProd == Sel([k \in {EnvKey} |-> "prod"], <<>>)
SelEnvNotInProd == Sel(EmptyLabels, <<Expr(EnvKey, "NotIn", {"prod"})>>)

\* ClusterUserDefinedNetwork items the List call may answer with
CUDNSamples ==
    { Def("Primary", Absent, Absent, Absent, SelEverything),
      Def(Absent, "Primary", Absent, Absent, SelEnvProd),
      Def(Absent, Absent, "Primary", Absent, SelEnvNotInProd),
      Def("Primary", Absent, Absent, Absent, NoSel),
      Def("Secondary", "primary", Absent, Absent, SelEverything),
      NoSpecDef }

\* UserDefinedNetwork items the List call may answer with
UDNSamples ==
    { Def(Absent, Absent, "Primary", Absent, NoSel),
      Def(Absent, Absent, Absent, "Primary", NoSel),
      Def(Absent, Absent, "Secondary", "primary", NoSel),
      NoSpecDef }

\* namespace label maps
NsLabelSamples ==
    { EmptyLabels,
      [k \in {EnvKey} |-> "prod"],
      [k \in {MarkerKey} |-> ""],
      [k \in {MarkerKey, EnvKey} |-> IF k = EnvKey THEN "prod" ELSE ""],
      [k \in {MarkerKey, EnvKey} |-> IF k = EnvKey THEN "dev" ELSE ""] }

SeqsUpTo(S, n) == UNION {[1..m -> S] : m \in 0..n}

NsOK(labels) == [err |-> FALSE, labels |-> labels]
NsErr == [err |-> TRUE, labels |-> EmptyLabels]
ListOK(items) == [status |-> "ok", items |-> items]
ListNotFound == [status |-> "NotFound", items |-> <<>>]
ListErr == [status |-> "Error", items |-> <<>>]

\* ------------------------------------------------------- DataVolume status
\* dv.Object["status"] as the poll reads it: no status map yet, or a phase
\* (the empty phase when "phase" is missing) and a condition list
DVStatus(phase, conds) == [hasStatus |-> TRUE, phase |-> phase, conditions |-> conds]
NoStatus == [hasStatus |-> FALSE, phase |-> "", conditions |-> <<>>]
DVStatuses ==
    { NoStatus,
      DVStatus("", <<>>),
      DVStatus("ImportScheduled", <<>>),
      DVStatus("ImportInProgress", <<"Running">>),
      DVStatus(DVPhaseSucceeded, <<>>),
      DVStatus(DVPhaseFailed, <<>>),
      DVStatus(DVPhaseFailed, <<"ImportFailed">>) }

\* ------------------------------------------------------------ the results
\* the error value Upload returns: kind "nil" is success; step is the wrapping
\* prefix; conds the condition list the message carries, when it carries one
Res(kind, step, hasConds, conds) ==
    [kind |-> kind, step |-> step, hasConds |-> hasConds, conds |-> conds]
NoResult == Res("none", "", FALSE, <<>>)
Success == Res("nil", "", FALSE, <<>>)
Err(kind, step) == Res(kind, step, FALSE, <<>>)

\* ---------------------------------------------------------------- state
VARIABLES
    fileExists,   \* os.Stat(localImagePath) succeeds
    nsResp,       \* the API's answer to the namespace Get
    cudnResp,     \* the API's answer to the CUDN List
    udnResp,      \* the API's answer to the UDN List
    pc,           \* where Upload is
    result,       \* the error Upload returns (NoResult while it runs)
    detected,     \* what namespaceHasPrimaryUDN returned
    apiCalls,     \* the requests the detector issued
    started,      \* the workflow steps started, in order
    trace,        \* the workflow steps that returned, in order, with ok
    createCalls,  \* the Create requests issued: "pod", "service", "datavolume"
    createAnswers,  \* the Create requests with the API's answers, in order
    podExists, podReady, svcExists,   \* the origin pod and service
    dvExists, dvStatus,               \* the DataVolume named u.pvcName
    ctxExpired,   \* the caller's deadline (main.go: 2 h) has elapsed
    deadlineAt,   \* where Upload was, and the job's phase, when it elapsed
    readyPolls,   \* polls of the readiness wait so far
    dvPolls,      \* polls of the import wait so far
    lastPhase,    \* waitForDataVolume's lastPhase
    observed,     \* the statuses the DataVolume Gets returned, in order
    notified,     \* the phases printed as "DataVolume phase: ..."
    cleanupRuns,  \* calls of cleanup
    delIssued,    \* the Delete requests cleanup issued, in order
    delOutcomes,  \* their outcomes, in order
    selIn,        \* a network definition's spec handed to selectorMatchesNamespace
    labelsIn,     \* the namespace labels handed to it
    matchOut,     \* what it returned
    sPc,          \* where streamImageToPod is
    sRet,         \* the error streamImageToPod returned
    wPc,          \* where the archive-writer goroutine is
    wSent,        \* what the goroutine sent on errChan
    errChan,      \* the buffered channel (capacity 1)
    declared,     \* header.Size: the file's size at Stat, in chunks
    fileLen,      \* the chunks the file holds when it is copied
    delivered,    \* the chunks of the entry the session has read from the pipe
    twClose,      \* how the deferred tw.Close() ended
    pipeEOF,      \* writer.Close() has run
    sess,         \* the remote session of StreamWithContext
    sessOK,       \* the session ended without error
    rivalPc,      \* where a second run of Upload in the same namespace is
    rivalDel,     \* the outcomes of the Deletes of the second run's cleanup
    sizeIn,       \* the size of the file handed to GetPVCSize
    sizeOut       \* what GetPVCSize returned

vars ==
    <<fileExists, nsResp, cudnResp, udnResp, pc, result, detected, apiCalls,
      started, trace, createCalls, createAnswers, podExists, podReady, svcExists,
      dvExists, dvStatus, ctxExpired, deadlineAt, readyPolls, dvPolls, lastPhase, observed,
      notified, cleanupRuns, delIssued, delOutcomes, selIn, labelsIn, matchOut,
      sPc, sRet, wPc, wSent, errChan, declared, fileLen, delivered, twClose,
      pipeEOF, sess, sessOK, rivalPc, rivalDel, sizeIn, sizeOut>>

inputVars == <<fileExists, nsResp, cudnResp, udnResp>>
detectVars == <<detected, apiCalls>>
createVars == <<createCalls, createAnswers>>
ctxVars == <<ctxExpired, deadlineAt>>
clusterVars == <<podExists, podReady, svcExists, dvExists, dvStatus>>
pollVars == <<readyPolls, dvPolls, lastPhase, observed, notified>>
cleanupVars == <<cleanupRuns, delIssued, delOutcomes>>
workflowVars ==
    <<inputVars, pc, result, detectVars, started, trace, createVars, clusterVars,
      ctxVars, pollVars, cleanupVars>>
matchVars == <<selIn, labelsIn, matchOut>>
\* the variables of the operations modelled on their own
streamVars ==
    <<sPc, sRet, wPc, wSent, errChan, declared, fileLen, delivered, twClose,
      pipeEOF, sess, sessOK>>
rivalVars == <<rivalPc, rivalDel>>
sizeVars == <<sizeIn, sizeOut>>
otherVars == <<matchVars, streamVars, rivalVars, sizeVars>>

NoDeadline == [pc |-> "none", phase |-> ""]
NoDetection == [val |-> FALSE, err |-> "none", calls |-> <<>>]
NoMatch == [done |-> FALSE, val |-> FALSE]

\* selectorMatchesNamespace not called on its own
InitMatchIdle ==
    /\ selIn = [sel |-> NoSel]
    /\ labelsIn = EmptyLabels
    /\ matchOut = NoMatch

\* streamImageToPod before it opens the file
InitStreamRun ==
    /\ sPc = "idle"
    /\ sRet = "none"
    /\ wPc = "notStarted"
    /\ wSent = "none"
    /\ errChan = <<>>
    /\ delivered = 0
    /\ twClose = "pending"
    /\ pipeEOF = FALSE
    /\ sess = "notStarted"
    /\ sessOK = FALSE

\* streamImageToPod not stepped through on its own
InitStreamIdle ==
    /\ InitStreamRun
    /\ declared = 0
    /\ fileLen = 0

\* no second run in the namespace
InitRivalIdle ==
    /\ rivalPc = "absent"
    /\ rivalDel = <<>>

NoSize == [done |-> FALSE, err |-> FALSE, val |-> ""]

\* GetPVCSize not called
InitSizeIdle ==
    /\ sizeIn = [statOK |-> TRUE, units |-> 0]
    /\ sizeOut = NoSize

\* the operations modelled on their own are not running
InitOther ==
    /\ InitMatchIdle
    /\ InitStreamIdle
    /\ InitRivalIdle
    /\ InitSizeIdle

\* the run's own state when Upload is called
InitRun ==
    /\ pc = "Upload"
    /\ result = NoResult
    /\ detected = NoDetection
    /\ apiCalls = <<>>
    /\ started = <<>>
    /\ trace = <<>>
    /\ createCalls = {}
    /\ createAnswers = <<>>
    /\ ctxExpired = FALSE
    /\ deadlineAt = NoDeadline
    /\ readyPolls = 0
    /\ dvPolls = 0
    /\ lastPhase = ""
    /\ observed = <<>>
    /\ notified = <<>>
    /\ cleanupRuns = 0
    /\ delIssued = <<>>
    /\ delOutcomes = <<>>

\* the answers <<nsResp, cudnResp, udnResp>> the whole workflow is run on: one
\* for each way through the detector
MarkedProd == [k \in {MarkerKey, EnvKey} |-> IF k = EnvKey THEN "prod" ELSE ""]
PrimaryCUDN(sel) == Def("Primary", Absent, Absent, Absent, sel)
PrimaryUDN == Def(Absent, Absent, "Primary", Absent, NoSel)
UploadInputs ==
    { <<NsErr, ListNotFound, ListOK(<<>>)>>,
      <<NsOK([k \in {EnvKey} |-> "prod"]), ListOK(<<PrimaryCUDN(SelEverything)>>),
        ListOK(<<PrimaryUDN>>)>>,
      <<NsOK(MarkedProd), ListOK(<<PrimaryCUDN(SelEverything)>>), ListErr>>,
      <<NsOK(MarkedProd), ListOK(<<PrimaryCUDN(SelEnvNotInProd)>>), ListErr>>,
      <<NsOK(MarkedProd), ListOK(<<PrimaryCUDN(SelEnvNotInProd)>>), ListOK(<<>>)>>,
      <<NsOK(MarkedProd), ListErr, ListOK(<<PrimaryUDN>>)>>,
      <<NsOK(MarkedProd), ListNotFound, ListOK(<<PrimaryUDN>>)>>,
      <<NsOK(MarkedProd), ListNotFound, ListOK(<<>>)>>,
      <<NsOK(MarkedProd), ListNotFound, ListNotFound>>,
      <<NsOK(MarkedProd), ListNotFound, ListErr>> }

\* the whole workflow on a few detector inputs; the namespace may hold
\* leftovers of an earlier run (pod, service, a DataVolume of the same name)
Init ==
    /\ InitRun
    /\ InitOther
    /\ fileExists \in BOOLEAN
    /\ \E in \in UploadInputs :
          /\ nsResp = in[1]
          /\ cudnResp = in[2]
          /\ udnResp = in[3]
    /\ podExists \in BOOLEAN
    /\ podReady \in (IF podExists THEN BOOLEAN ELSE {FALSE})
    /\ svcExists \in BOOLEAN
    /\ dvExists \in BOOLEAN
    /\ dvStatus \in (IF dvExists THEN {NoStatus, DVStatus(DVPhaseSucceeded, <<>>)}
                                 ELSE {NoStatus})

\* the detector on every combination of sample API answers
InitDetect ==
    /\ InitRun
    /\ InitOther
    /\ fileExists = TRUE
    /\ nsResp \in {NsErr} \cup {NsOK(l) : l \in NsLabelSamples}
    /\ cudnResp \in {ListNotFound, ListErr}
                      \cup {ListOK(s) : s \in SeqsUpTo(CUDNSamples, MaxItems)}
    /\ udnResp \in {ListNotFound, ListErr}
                      \cup {ListOK(s) : s \in SeqsUpTo(UDNSamples, MaxItems)}
    /\ podExists = FALSE
    /\ podReady = FALSE
    /\ svcExists = FALSE
    /\ dvExists = FALSE
    /\ dvStatus = NoStatus

\* ---------------------------------------------------------------- Upload
\* Upload, lines 101-104: the local file must exist
UploadStat ==
    /\ pc = "Upload"
    /\ IF fileExists
       THEN /\ pc' = "detect"
            /\ result' = result
       ELSE /\ pc' = "Returned"
            /\ result' = Err("localNotFound", "local image not found")
    /\ UNCHANGED otherVars
    /\ UNCHANGED <<inputVars, detectVars, started, trace, createVars,
                   clusterVars, ctxVars, pollVars, cleanupVars>>

\* mutant of UploadBranch: the HTTP path is taken whatever the detector says
UploadBranch_AlwaysHTTP(hasUDN) == "createServerPod"

\* Upload, lines 112-118: the path taken for the detector's answer
UploadBranch(hasUDN) == IF hasUDN THEN "createServerPod" ELSE "uploadViaProxy"

\* Upload, lines 106-118: detect, fail on a detector error, else branch
UploadDetect ==
    /\ pc = "detect"
    /\ LET r == namespaceHasPrimaryUDN(nsResp, cudnResp, udnResp)
       IN  /\ detected' = [val |-> r.val, err |-> r.err, calls |-> r.calls]
           /\ apiCalls' = r.calls
           /\ IF r.err # "nil"
              THEN /\ pc' = "Returned"
                   /\ result' = Err("error", "detecting UDN")
              ELSE /\ pc' = UploadBranch(r.val)
                   /\ result' = result
    /\ UNCHANGED otherVars
    /\ UNCHANGED <<inputVars, started, trace, createVars, clusterVars, ctxVars,
                   pollVars, cleanupVars>>

\* uploadViaProxy: the unimplemented standard flow
uploadViaProxy ==
    /\ pc = "uploadViaProxy"
    /\ pc' = "Returned"
    /\ result' = Err("notImplemented", "")
    /\ UNCHANGED otherVars
    /\ UNCHANGED <<inputVars, detectVars, started, trace, createVars,
                   clusterVars, ctxVars, pollVars, cleanupVars>>

\* ------------------------------------------------- uploadViaHTTPSource
\* the five steps of uploadViaHTTPSource, in the order of its body
Steps ==
    <<"createServerPod", "createServerService", "streamImageToPod",
      "createDataVolume", "waitForDataVolume">>

\* mutant of AfterStep: the error of streamImageToPod is dropped
AfterStep_IgnorePushError(step, ok) ==
    CASE step = "createServerPod" -> IF ok THEN "createServerService" ELSE "Returned"
      [] step = "createServerService" -> IF ok THEN "streamImageToPod" ELSE "cleanup"
      [] step = "streamImageToPod" -> "createDataVolume"
      [] step = "createDataVolume" -> IF ok THEN "waitForDataVolume" ELSE "cleanup"
      [] OTHER -> "cleanup"

\* uploadViaHTTPSource's control flow after a step returned: the next step on
\* success; on the first error it returns, through the deferred cleanup once
\* `defer u.cleanup(ctx)` (line 281) has been reached, and directly before
AfterStep(step, ok) ==
    CASE step = "createServerPod" -> IF ok THEN "createServerService" ELSE "Returned"
      [] step = "createServerService" -> IF ok THEN "streamImageToPod" ELSE "cleanup"
      [] step = "streamImageToPod" -> IF ok THEN "createDataVolume" ELSE "cleanup"
      [] step = "createDataVolume" -> IF ok THEN "waitForDataVolume" ELSE "cleanup"
      [] OTHER -> "cleanup"

\* what uploadViaHTTPSource will return once a step returned err (nil when ok)
ResultAfter(step, ok, err, res) ==
    IF ~ok THEN err
    ELSE IF step = "waitForDataVolume" THEN Success
    ELSE res

Begin(step) == started' = Append(started, step)

Finish(step, ok, err) ==
    /\ trace' = Append(trace, [step |-> step, ok |-> ok])
    /\ pc' = AfterStep(step, ok)
    /\ result' = ResultAfter(step, ok, err, result)

\* the answer to a Create request for an object that exists or not; a request
\* made with an expired context fails in the client
CreateOutcomes(exists, expired) ==
    IF expired THEN {"CtxError"}
    ELSE IF exists THEN {"AlreadyExists", "ApiError"}
    ELSE {"Created", "ApiError"}

\* mutant of CreateError: AlreadyExists is an error for every kind
CreateError_ExistsIsError(kind, out) == out # "Created"

\* mutant of CreateError: AlreadyExists is no error for any kind
CreateError_ExistsIsFine(kind, out) == out \notin {"Created", "AlreadyExists"}

\* whether the step returns the error of its Create request: lines 351 and 390
\* let AlreadyExists pass (pod, service), line 520 returns every error
CreateError(kind, out) ==
    IF kind \in {"pod", "service"} THEN out \notin {"Created", "AlreadyExists"}
    ELSE out # "Created"

Answer(kind, out) == createAnswers' = Append(createAnswers, [kind |-> kind, out |-> out])

\* createServerPod, lines 350-353: create the pod; AlreadyExists is no error
createServerPod ==
    /\ pc = "createServerPod"
    /\ Begin("createServerPod")
    /\ createCalls' = createCalls \cup {"pod"}
    /\ \E out \in CreateOutcomes(podExists, ctxExpired) :
          /\ Answer("pod", out)
          /\ IF ~CreateError("pod", out)
             THEN /\ pc' = "waitPodReady"
                  /\ podExists' = TRUE
                  /\ podReady' = (podExists /\ podReady)
                  /\ UNCHANGED <<trace, result>>
             ELSE /\ Finish("createServerPod", FALSE, Err("error", "creating server pod"))
                  /\ UNCHANGED <<podExists, podReady>>
    /\ UNCHANGED otherVars
    /\ UNCHANGED <<inputVars, detectVars, svcExists, dvExists, dvStatus,
                   ctxVars, pollVars, cleanupVars>>

\* createServerPod, lines 356-368: one round of the readiness poll (2 s
\* interval, 120 s window, inside the caller's context)
waitPodReady ==
    /\ pc = "waitPodReady"
    /\ IF ctxExpired \/ readyPolls >= MaxReadyPolls
       THEN /\ Finish("createServerPod", FALSE, Err("timeout", "creating server pod"))
            /\ UNCHANGED readyPolls
       ELSE \E getErr \in (IF podExists THEN BOOLEAN ELSE {TRUE}) :
               IF getErr
               THEN /\ Finish("createServerPod", FALSE,
                              Err("error", "creating server pod"))
                    /\ UNCHANGED readyPolls
               ELSE IF podReady
               THEN /\ Finish("createServerPod", TRUE, NoResult)
                    /\ UNCHANGED readyPolls
               ELSE /\ readyPolls' = readyPolls + 1
                    /\ UNCHANGED <<pc, trace, result>>
    /\ UNCHANGED otherVars
    /\ UNCHANGED <<inputVars, detectVars, started, createVars, clusterVars,
                   ctxVars, dvPolls, lastPhase, observed, notified,
                   cleanupVars>>

\* createServerService, lines 389-393: AlreadyExists is no error
createServerService ==
    /\ pc = "createServerService"
    /\ Begin("createServerService")
    /\ createCalls' = createCalls \cup {"service"}
    /\ \E out \in CreateOutcomes(svcExists, ctxExpired) :
          /\ Answer("service", out)
          /\ IF ~CreateError("service", out)
             THEN /\ svcExists' = TRUE
                  /\ Finish("createServerService", TRUE, NoResult)
             ELSE /\ UNCHANGED svcExists
                  /\ Finish("createServerService", FALSE,
                            Err("error", "creating server service"))
    /\ UNCHANGED otherVars
    /\ UNCHANGED <<inputVars, detectVars, podExists, podReady, dvExists,
                   dvStatus, ctxVars, pollVars, cleanupVars>>

\* how streamImageToPod may end: a local open/stat failure, a failed remote
\* session, a failed archive writer, or nil; with an expired context, or
\* without the pod to exec into, the remote session cannot succeed
StreamOutcomes(expired) ==
    IF expired THEN {"opening local file", "streaming to pod"}
    ELSE {"nil", "opening local file", "streaming to pod", "copying file to tar"}

\* streamImageToPod
streamImageToPod ==
    /\ pc = "streamImageToPod"
    /\ Begin("streamImageToPod")
    /\ \E out \in StreamOutcomes(ctxExpired \/ ~podExists) :
          Finish("streamImageToPod", out = "nil", Err("error", "streaming image"))
    /\ UNCHANGED otherVars
    /\ UNCHANGED <<inputVars, detectVars, createVars, clusterVars, ctxVars,
                   pollVars, cleanupVars>>

\* createDataVolume, lines 519-524: every Create error is returned,
\* AlreadyExists included
createDataVolume ==
    /\ pc = "createDataVolume"
    /\ Begin("createDataVolume")
    /\ createCalls' = createCalls \cup {"datavolume"}
    /\ \E out \in CreateOutcomes(dvExists, ctxExpired) :
          /\ Answer("datavolume", out)
          /\ IF ~CreateError("datavolume", out)
             THEN /\ dvExists' = TRUE
                  /\ dvStatus' = (IF out = "Created" THEN NoStatus ELSE dvStatus)
                  /\ Finish("createDataVolume", TRUE, NoResult)
             ELSE /\ UNCHANGED <<dvExists, dvStatus>>
                  /\ Finish("createDataVolume", FALSE, Err("error", "creating DataVolume"))
    /\ UNCHANGED otherVars
    /\ UNCHANGED <<inputVars, detectVars, podExists, podReady, svcExists,
                   ctxVars, pollVars, cleanupVars>>

\* mutant of PollCond: phase "Failed" is not treated as terminal
PollCond_FailedNotTerminal(status, last) ==
    IF ~status.hasStatus
    THEN [done |-> FALSE, failed |-> FALSE, conds |-> <<>>, lastPhase |-> last,
          notify |-> FALSE]
    ELSE [done |-> status.phase = DVPhaseSucceeded,
          failed |-> FALSE,
          conds |-> <<>>,
          lastPhase |-> status.phase,
          notify |-> status.phase # last]

\* mutant of PollCond: every phase other than "Failed" ends the wait
PollCond_AnyPhaseDone(status, last) ==
    IF ~status.hasStatus
    THEN [done |-> FALSE, failed |-> FALSE, conds |-> <<>>, lastPhase |-> last,
          notify |-> FALSE]
    ELSE [done |-> status.phase # DVPhaseFailed,
          failed |-> status.phase = DVPhaseFailed,
          conds |-> IF status.phase = DVPhaseFailed THEN status.conditions ELSE <<>>,
          lastPhase |-> status.phase,
          notify |-> status.phase # last]

\* mutant of PollCond: lastPhase is not updated after a print
PollCond_LastPhaseKept(status, last) ==
    IF ~status.hasStatus
    THEN [done |-> FALSE, failed |-> FALSE, conds |-> <<>>, lastPhase |-> last,
          notify |-> FALSE]
    ELSE [done |-> status.phase # DVPhaseFailed /\ status.phase = DVPhaseSucceeded,
          failed |-> status.phase = DVPhaseFailed,
          conds |-> IF status.phase = DVPhaseFailed THEN status.conditions ELSE <<>>,
          lastPhase |-> last,
          notify |-> status.phase # last]

\* the poll callback of waitForDataVolume, lines 540-559, on a fetched object:
\* [done, failed, conds, lastPhase, notify]
PollCond(status, last) ==
    IF ~status.hasStatus
    THEN [done |-> FALSE, failed |-> FALSE, conds |-> <<>>, lastPhase |-> last,
          notify |-> FALSE]
    ELSE [done |-> status.phase # DVPhaseFailed /\ status.phase = DVPhaseSucceeded,
          failed |-> status.phase = DVPhaseFailed,
          conds |-> IF status.phase = DVPhaseFailed THEN status.conditions ELSE <<>>,
          lastPhase |-> status.phase,
          notify |-> status.phase # last]

\* mutant of PollTimeout: the timeout is reported as an import failure
PollTimeout_AsImportFailed(step) == Res("importFailed", step, TRUE, <<>>)

\* the error PollUntilContextTimeout returns when its window or the caller's
\* context ends: the context's deadline error
PollTimeout(step) == Err("timeout", step)

\* the error of a failed DataVolume Get inside the poll callback, lines 535-537
GetDVError == Err("error", "waiting for DataVolume: getting DataVolume")

\* waitForDataVolume, lines 529-561: one round of the poll (5 s interval,
\* 60 min window, inside the caller's context). Once the window or the
\* context has ended the wait returns the deadline error: from the loop, or,
\* on the immediate first round, from the Get made with the ended context
waitForDataVolume ==
    /\ pc = "waitForDataVolume"
    /\ started' = IF Len(started) < Len(Steps) THEN Append(started, "waitForDataVolume")
                  ELSE started
    /\ IF ctxExpired \/ dvPolls >= MaxImportPolls
       THEN /\ Finish("waitForDataVolume", FALSE, PollTimeout("waiting for DataVolume"))
            /\ UNCHANGED pollVars
       ELSE \E getErr \in BOOLEAN :
               IF getErr
               THEN /\ Finish("waitForDataVolume", FALSE, GetDVError)
                    /\ UNCHANGED pollVars
               ELSE LET r == PollCond(dvStatus, lastPhase)
                    IN  /\ observed' = Append(observed, dvStatus)
                        /\ lastPhase' = r.lastPhase
                        /\ notified' = IF r.notify THEN Append(notified, r.lastPhase)
                                       ELSE notified
                        /\ UNCHANGED readyPolls
                        /\ IF r.failed
                           THEN /\ Finish("waitForDataVolume", FALSE,
                                          Res("importFailed", "waiting for DataVolume",
                                              TRUE, r.conds))
                                /\ UNCHANGED dvPolls
                           ELSE IF r.done
                           THEN /\ Finish("waitForDataVolume", TRUE, NoResult)
                                /\ UNCHANGED dvPolls
                           ELSE /\ dvPolls' = dvPolls + 1
                                /\ UNCHANGED <<pc, trace, result>>
    /\ UNCHANGED otherVars
    /\ UNCHANGED <<inputVars, detectVars, createVars, clusterVars, ctxVars,
                   cleanupVars>>

\* the answer to a Delete request; a request made with an expired context
\* fails in the client and never reaches the API
DeleteOutcomes(exists, expired) ==
    IF expired THEN {"CtxError"}
    ELSE IF exists THEN {"Deleted", "ApiError"}
    ELSE {"NotFound", "ApiError"}

\* cleanup, lines 568-579: the Delete requests it issues, given the outcome of
\* the first
CleanupDeletes(svcOut) == <<"service", "pod">>

\* mutant of CleanupResult: a Delete error other than NotFound is returned
CleanupResult_Escalate(res, svcOut, podOut) ==
    IF {svcOut, podOut} \subseteq {"Deleted", "NotFound"} THEN res
    ELSE Err("error", "cleanup")

\* what Upload returns after the deferred cleanup ran with these outcomes
CleanupResult(res, svcOut, podOut) == res

\* cleanup, called by the defer of uploadViaHTTPSource with the caller's ctx
cleanup ==
    /\ pc = "cleanup"
    /\ \E svcOut \in DeleteOutcomes(svcExists, ctxExpired) :
          LET dels == CleanupDeletes(svcOut)
          IN  \E podOut \in (IF Len(dels) = 2 THEN DeleteOutcomes(podExists, ctxExpired)
                             ELSE {"NotIssued"}) :
                 /\ svcExists' = (svcExists /\ svcOut # "Deleted")
                 /\ podExists' = (podExists /\ podOut # "Deleted")
                 /\ podReady' = (podReady /\ podOut # "Deleted")
                 /\ delIssued' = delIssued \o dels
                 /\ delOutcomes' = delOutcomes \o
                       (IF Len(dels) = 2 THEN <<svcOut, podOut>> ELSE <<svcOut>>)
                 /\ result' = CleanupResult(result, svcOut, podOut)
    /\ cleanupRuns' = cleanupRuns + 1
    /\ pc' = "Returned"
    /\ UNCHANGED otherVars
    /\ UNCHANGED <<inputVars, detectVars, started, trace, createVars, dvExists,
                   dvStatus, ctxVars, pollVars>>

\* ------------------------------------------------------- the environment
\* the kubelet reports the origin pod Ready
PodBecomesReady ==
    /\ pc # "Returned"
    /\ podExists /\ ~podReady
    /\ podReady' = TRUE
    /\ UNCHANGED otherVars
    /\ UNCHANGED <<inputVars, pc, result, detectVars, started, trace,
                   createVars, podExists, svcExists, dvExists, dvStatus,
                   ctxVars, pollVars, cleanupVars>>

\* the import controller rewrites the DataVolume's status; phases may flap
DVController ==
    /\ pc # "Returned"
    /\ dvExists
    /\ \E s \in DVStatuses \ {dvStatus} : dvStatus' = s
    /\ UNCHANGED otherVars
    /\ UNCHANGED <<inputVars, pc, result, detectVars, started, trace,
                   createVars, podExists, podReady, svcExists, dvExists,
                   ctxVars, pollVars, cleanupVars>>

\* the caller's deadline (main.go, context.WithTimeout) elapses
DeadlineElapses ==
    /\ pc \notin {"Upload", "Returned"}
    /\ ~ctxExpired
    /\ ctxExpired' = TRUE
    /\ deadlineAt' = [pc |-> pc,
                       phase |-> IF pc = "waitForDataVolume" THEN dvStatus.phase ELSE ""]
    /\ UNCHANGED otherVars
    /\ UNCHANGED <<inputVars, pc, result, detectVars, started, trace,
                   createVars, clusterVars, pollVars, cleanupVars>>

Next ==
    \/ UploadStat
    \/ UploadDetect
    \/ uploadViaProxy
    \/ createServerPod
    \/ waitPodReady
    \/ createServerService
    \/ streamImageToPod
    \/ createDataVolume
    \/ waitForDataVolume
    \/ cleanup
    \/ PodBecomesReady
    \/ DVController
    \/ DeadlineElapses

Spec == Init /\ [][Next]_vars

NextDetect ==
    \/ UploadStat
    \/ UploadDetect

SpecDetect == InitDetect /\ [][NextDetect]_vars

\* ------------------------------------- selectorMatchesNamespace on its own
\* the workflow is not running: its variables stay as Upload finds them
InitNoWorkflow ==
    /\ InitRun
    /\ fileExists = TRUE
    /\ nsResp = NsOK(EmptyLabels)
    /\ cudnResp = ListNotFound
    /\ udnResp = ListNotFound
    /\ podExists = FALSE
    /\ podReady = FALSE
    /\ svcExists = FALSE
    /\ dvExists = FALSE
    /\ dvStatus = NoStatus

\* an element of matchExpressions that is not a map
NotAMap == [isMap |-> FALSE, key |-> "", operator |-> "", values |-> {}]

\* elements of spec.namespaceSelector.matchExpressions as an object can hold them
ExprSamples ==
    { Expr(EnvKey, "In", {"prod"}), Expr(EnvKey, "In", {}),
      Expr(EnvKey, "In", {"prod", "dev"}),
      Expr(EnvKey, "NotIn", {"prod"}), Expr(EnvKey, "NotIn", {}),
      Expr(EnvKey, "Exists", {}), Expr(EnvKey, "Exists", {"prod"}),
      Expr(EnvKey, "DoesNotExist", {}), Expr(EnvKey, "DoesNotExist", {"prod"}),
      Expr(TierKey, "Exists", {}), Expr(TierKey, "DoesNotExist", {}),
      Expr(TierKey, "NotIn", {"web"}),
      Expr(EnvKey, "Bogus", {}), Expr(NonString, "Exists", {}),
      Expr(EnvKey, "Exists", {NonString}),
      NotAMap }

\* spec.namespaceSelector.matchLabels as an object can hold it
MatchLabelSamples ==
    { EmptyLabels,
      [k \in {EnvKey} |-> "prod"],
      [k \in {TierKey} |-> NonString] }

\* the selectors selectorMatchesNamespace is applied to
SelectorSamples ==
    {NoSel} \cup {Sel(ml, me) : ml \in MatchLabelSamples,
                                me \in SeqsUpTo(ExprSamples, MaxExprs)}

\* the label maps it is applied to
LabelSamples ==
    { EmptyLabels,
      [k \in {EnvKey} |-> "prod"],
      [k \in {EnvKey} |-> "dev"],
      [k \in {TierKey} |-> "web"],
      [k \in {EnvKey, TierKey} |-> IF k = EnvKey THEN "prod" ELSE "web"] }

InitMatch ==
    /\ InitNoWorkflow
    /\ InitStreamIdle
    /\ InitRivalIdle
    /\ InitSizeIdle
    /\ selIn \in {[sel |-> x] : x \in SelectorSamples}
    /\ labelsIn \in LabelSamples
    /\ matchOut = NoMatch

\* one call selectorMatchesNamespace(spec, nsLabels)
MatchSelector ==
    /\ ~matchOut.done
    /\ matchOut' = [done |-> TRUE, val |-> selectorMatchesNamespace(selIn, labelsIn)]
    /\ UNCHANGED <<selIn, labelsIn, streamVars, rivalVars, sizeVars>>
    /\ UNCHANGED <<inputVars, pc, result, detectVars, started, trace,
                   createVars, clusterVars, ctxVars, pollVars, cleanupVars>>

NextMatch == MatchSelector

SpecMatch == InitMatch /\ [][NextMatch]_vars

\* ------------------------------------------ the origin started repeatedly
\* createServerPod is about to be called; the namespace may hold the pod and
\* the service of an earlier call
InitStart ==
    /\ InitRun
    /\ InitOther
    /\ fileExists = TRUE
    /\ nsResp = NsOK([k \in {MarkerKey} |-> ""])
    /\ cudnResp = ListNotFound
    /\ udnResp = ListOK(<<Def(Absent, Absent, "Primary", Absent, NoSel)>>)
    /\ podExists \in BOOLEAN
    /\ podReady \in (IF podExists THEN BOOLEAN ELSE {FALSE})
    /\ svcExists \in BOOLEAN
    /\ dvExists = FALSE
    /\ dvStatus = NoStatus

\* the first call of createServerPod
StartFirst ==
    /\ pc = "Upload"
    /\ pc' = "createServerPod"
    /\ UNCHANGED otherVars
    /\ UNCHANGED <<inputVars, result, detectVars, started, trace, createVars,
                   clusterVars, ctxVars, pollVars, cleanupVars>>

\* createServerPod and createServerService returned nil and are called again
StartAgain ==
    /\ pc = "streamImageToPod"
    /\ Len(trace) < 2 * MaxStarts
    /\ pc' = "createServerPod"
    /\ readyPolls' = 0
    /\ UNCHANGED otherVars
    /\ UNCHANGED <<inputVars, result, detectVars, started, trace, createVars,
                   clusterVars, ctxVars, dvPolls, lastPhase, observed, notified,
                   cleanupVars>>

NextStart ==
    \/ StartFirst
    \/ createServerPod
    \/ waitPodReady
    \/ createServerService
    \/ StartAgain
    \/ PodBecomesReady
    \/ DeadlineElapses

SpecStart == InitStart /\ [][NextStart]_vars

\* ------------------------------------------- streamImageToPod step by step
\* the image file at Stat (declared chunks) and when it is copied (fileLen
\* chunks: it may have been truncated or appended to in between); the origin
\* pod is up and streamImageToPod is about to be called
InitStream ==
    /\ InitRun
    /\ InitMatchIdle
    /\ InitRivalIdle
    /\ InitSizeIdle
    /\ InitStreamRun
    /\ declared \in 0..MaxChunks
    /\ fileLen \in 0..(MaxChunks + 1)
    /\ fileExists = TRUE
    /\ nsResp = NsOK(MarkedProd)
    /\ cudnResp = ListNotFound
    /\ udnResp = ListOK(<<PrimaryUDN>>)
    /\ podExists = TRUE
    /\ podReady = TRUE
    /\ svcExists = TRUE
    /\ dvExists = FALSE
    /\ dvStatus = NoStatus

\* uploadViaHTTPSource, line 291: the call of streamImageToPod
StreamBegin ==
    /\ pc = "Upload" /\ sPc = "idle"
    /\ pc' = "streamImageToPod"
    /\ sPc' = "open"
    /\ UNCHANGED <<inputVars, result, detectVars, started, trace, createVars,
                   clusterVars, ctxVars, pollVars, cleanupVars, matchVars,
                   rivalVars, sizeVars>>
    /\ UNCHANGED <<sRet, wPc, wSent, errChan, declared, fileLen, delivered,
                   twClose, pipeEOF, sess, sessOK>>

StreamReturn(err) == sPc' = "returned" /\ sRet' = err

\* lines 399-403: os.Open
StreamOpen ==
    /\ sPc = "open"
    /\ \E ok \in BOOLEAN :
          IF ok THEN sPc' = "stat" /\ sRet' = sRet
          ELSE StreamReturn("opening local file")
    /\ UNCHANGED <<workflowVars, matchVars, rivalVars, sizeVars>>
    /\ UNCHANGED <<wPc, wSent, errChan, declared, fileLen, delivered, twClose,
                   pipeEOF, sess, sessOK>>

\* lines 405-439: file.Stat, io.Pipe, make(chan error, 1) and the go statement
StreamStat ==
    /\ sPc = "stat"
    /\ \E ok \in BOOLEAN :
          IF ok THEN sPc' = "executor" /\ sRet' = sRet /\ wPc' = "header"
          ELSE StreamReturn("stat local file") /\ wPc' = wPc
    /\ UNCHANGED <<workflowVars, matchVars, rivalVars, sizeVars>>
    /\ UNCHANGED <<wSent, errChan, declared, fileLen, delivered, twClose,
                   pipeEOF, sess, sessOK>>

\* lines 455-464: NewSPDYExecutor, then StreamWithContext is entered
StreamExecutor ==
    /\ sPc = "executor"
    /\ \E ok \in BOOLEAN :
          IF ok THEN sPc' = "streaming" /\ sRet' = sRet /\ sess' = "reading"
          ELSE StreamReturn("creating executor") /\ sess' = sess
    /\ UNCHANGED <<workflowVars, matchVars, rivalVars, sizeVars>>
    /\ UNCHANGED <<wPc, wSent, errChan, declared, fileLen, delivered, twClose,
                   pipeEOF, sessOK>>

\* lines 460-467: StreamWithContext has returned
StreamSessionDone ==
    /\ sPc = "streaming" /\ sess = "ended"
    /\ IF sessOK THEN sPc' = "receive" /\ sRet' = sRet
       ELSE StreamReturn("streaming to pod")
    /\ UNCHANGED <<workflowVars, matchVars, rivalVars, sizeVars>>
    /\ UNCHANGED <<wPc, wSent, errChan, declared, fileLen, delivered, twClose,
                   pipeEOF, sess, sessOK>>

\* lines 470-474: tarErr := <-errChan, which waits for a value; tarErr is
\* returned, nil included
StreamReceive ==
    /\ sPc = "receive" /\ errChan # <<>>
    /\ StreamReturn(Head(errChan))
    /\ errChan' = Tail(errChan)
    /\ UNCHANGED <<workflowVars, matchVars, rivalVars, sizeVars>>
    /\ UNCHANGED <<wPc, wSent, declared, fileLen, delivered, twClose, pipeEOF,
                   sess, sessOK>>

\* errChan <- v; the one send of the goroutine never finds the buffer full
WriterSend(v) ==
    /\ Len(errChan) < 1
    /\ errChan' = Append(errChan, v)
    /\ wSent' = v

\* lines 427-430: tw.WriteHeader writes the header block into the pipe, which
\* takes a reader on the other end, or returns an error
WriterHeader ==
    /\ wPc = "header"
    /\ \/ /\ sess = "reading"
          /\ wPc' = "read"
          /\ UNCHANGED <<wSent, errChan>>
       \/ /\ WriterSend("writing tar header")
          /\ wPc' = "closeTar"
    /\ UNCHANGED <<workflowVars, matchVars, rivalVars, sizeVars>>
    /\ UNCHANGED <<sPc, sRet, declared, fileLen, delivered, twClose, pipeEOF,
                   sess, sessOK>>

\* lines 432-438, io.Copy(tw, file): one Read of the file; a chunk beyond
\* header.Size makes tw.Write fail (ErrWriteTooLong), end of file ends the
\* copy with nil however many chunks were written
WriterRead ==
    /\ wPc = "read"
    /\ \/ /\ delivered < fileLen /\ delivered < declared
          /\ wPc' = "write"
          /\ UNCHANGED <<wSent, errChan>>
       \/ /\ delivered < fileLen /\ delivered >= declared
          /\ WriterSend("copying file to tar")
          /\ wPc' = "closeTar"
       \/ /\ WriterSend("copying file to tar")
          /\ wPc' = "closeTar"
       \/ /\ delivered >= fileLen
          /\ WriterSend("nil")
          /\ wPc' = "closeTar"
    /\ UNCHANGED <<workflowVars, matchVars, rivalVars, sizeVars>>
    /\ UNCHANGED <<sPc, sRet, declared, fileLen, delivered, twClose, pipeEOF,
                   sess, sessOK>>

\* io.Copy's tw.Write of the chunk read: a write into the pipe returns when
\* the session has read it
WriterWrite ==
    /\ wPc = "write" /\ sess = "reading"
    /\ delivered' = delivered + 1
    /\ wPc' = "read"
    /\ UNCHANGED <<workflowVars, matchVars, rivalVars, sizeVars>>
    /\ UNCHANGED <<sPc, sRet, wSent, errChan, declared, fileLen, twClose,
                   pipeEOF, sess, sessOK>>

\* line 419, the deferred tw.Close(): an error (a failed header, or an entry
\* shorter than header.Size) that nobody reads, or the footer written into
\* the pipe
WriterCloseTar ==
    /\ wPc = "closeTar"
    /\ IF wSent = "writing tar header" \/ delivered < declared
       THEN twClose' = "error"
       ELSE sess = "reading" /\ twClose' = "ok"
    /\ wPc' = "closePipe"
    /\ UNCHANGED <<workflowVars, matchVars, rivalVars, sizeVars>>
    /\ UNCHANGED <<sPc, sRet, wSent, errChan, declared, fileLen, delivered,
                   pipeEOF, sess, sessOK>>

\* line 417, the deferred writer.Close(): the reader sees end of stream
WriterClosePipe ==
    /\ wPc = "closePipe"
    /\ pipeEOF' = TRUE
    /\ wPc' = "done"
    /\ UNCHANGED <<workflowVars, matchVars, rivalVars, sizeVars>>
    /\ UNCHANGED <<sPc, sRet, wSent, errChan, declared, fileLen, delivered,
                   twClose, sess, sessOK>>

\* the remote side stops reading its input (the command is done with it, or
\* the connection is gone)
SessionStopsReading ==
    /\ sess = "reading"
    /\ sess' = "stopped"
    /\ UNCHANGED <<workflowVars, matchVars, rivalVars, sizeVars>>
    /\ UNCHANGED <<sPc, sRet, wPc, wSent, errChan, declared, fileLen, delivered,
                   twClose, pipeEOF, sessOK>>

\* the session ends: with the remote command's success, or with an error (a
\* failed command, a broken connection, the expired context)
SessionEnds ==
    /\ sess \in {"reading", "stopped"}
    /\ sess' = "ended"
    /\ sessOK' \in (IF ctxExpired THEN {FALSE} ELSE BOOLEAN)
    /\ UNCHANGED <<workflowVars, matchVars, rivalVars, sizeVars>>
    /\ UNCHANGED <<sPc, sRet, wPc, wSent, errChan, declared, fileLen, delivered,
                   twClose, pipeEOF>>

NextStream ==
    \/ StreamBegin
    \/ StreamOpen
    \/ StreamStat
    \/ StreamExecutor
    \/ StreamSessionDone
    \/ StreamReceive
    \/ WriterHeader
    \/ WriterRead
    \/ WriterWrite
    \/ WriterCloseTar
    \/ WriterClosePipe
    \/ SessionStopsReading
    \/ SessionEnds
    \/ DeadlineElapses

SpecStream == InitStream /\ [][NextStream]_vars

\* what the Go scheduler and the pipe guarantee: a statement of
\* streamImageToPod or of the goroutine that can run does run, and a write
\* into the pipe returns while the session keeps reading; nothing obliges the
\* remote session to keep reading or to end
FairStream ==
    /\ WF_vars(StreamBegin)
    /\ WF_vars(StreamOpen)
    /\ WF_vars(StreamStat)
    /\ WF_vars(StreamExecutor)
    /\ WF_vars(StreamSessionDone)
    /\ WF_vars(StreamReceive)
    /\ WF_vars(WriterHeader /\ sess = "reading")
    /\ WF_vars(WriterRead)
    /\ WF_vars(WriterWrite)
    /\ WF_vars(WriterCloseTar)
    /\ WF_vars(WriterClosePipe)

SpecStreamLive == InitStream /\ [][NextStream]_vars /\ FairStream

\* ------------------------------------------- two runs in one namespace
\* mutant of OriginName: every run names its own origin
OriginName_PerRun(run) == run

\* the name a run gives its origin pod (lines 323, 359, 445, 575): the
\* constant, whichever run it is
OriginName(run) == serverPodName

\* the second run addresses the objects of the first
SameOrigin == OriginName("rival") = OriginName("own") /\ serverSvcName = serverPodName

\* a second run of Upload is started in the namespace of the first; of its
\* steps those are kept that issue requests on the origin pod and service
InitTwoRuns ==
    /\ InitRun
    /\ InitMatchIdle
    /\ InitStreamIdle
    /\ InitSizeIdle
    /\ rivalPc = "createServerPod"
    /\ rivalDel = <<>>
    /\ fileExists = TRUE
    /\ nsResp = NsOK(MarkedProd)
    /\ cudnResp = ListNotFound
    /\ udnResp = ListOK(<<PrimaryUDN>>)
    /\ podExists = FALSE
    /\ podReady = FALSE
    /\ svcExists = FALSE
    /\ dvExists = FALSE
    /\ dvStatus = NoStatus

RivalUnchanged ==
    UNCHANGED <<workflowVars, matchVars, streamVars, sizeVars>>

\* the second run's createServerPod, lines 350-353: its Create
RivalCreatePod ==
    /\ rivalPc = "createServerPod"
    /\ \E ok \in BOOLEAN :
          IF ok
          THEN /\ rivalPc' = "waitPodReady"
               /\ podExists' = (podExists \/ SameOrigin)
               /\ podReady' = (podExists /\ podReady)
          ELSE /\ rivalPc' = "done"
               /\ UNCHANGED <<podExists, podReady>>
    /\ UNCHANGED <<inputVars, pc, result, detectVars, started, trace, createVars,
                   svcExists, dvExists, dvStatus, ctxVars, pollVars, cleanupVars>>
    /\ UNCHANGED <<rivalDel, matchVars, streamVars, sizeVars>>

\* the second run's createServerPod, lines 356-368: its readiness poll ends
\* with the pod Ready, or with an error, which skips its cleanup (line 279)
RivalWaitPodReady ==
    /\ rivalPc = "waitPodReady"
    /\ \/ (SameOrigin => podReady) /\ rivalPc' = "createServerService"
       \/ rivalPc' = "done"
    /\ UNCHANGED rivalDel
    /\ RivalUnchanged

\* the second run's createServerService
RivalCreateService ==
    /\ rivalPc = "createServerService"
    /\ \E ok \in BOOLEAN :
          IF ok
          THEN /\ rivalPc' = "working"
               /\ svcExists' = (svcExists \/ SameOrigin)
          ELSE /\ rivalPc' = "cleanup"
               /\ UNCHANGED svcExists
    /\ UNCHANGED <<inputVars, pc, result, detectVars, started, trace, createVars,
                   podExists, podReady, dvExists, dvStatus, ctxVars, pollVars,
                   cleanupVars>>
    /\ UNCHANGED <<rivalDel, matchVars, streamVars, sizeVars>>

\* the second run's streamImageToPod, createDataVolume and waitForDataVolume
\* (on a DataVolume of its own) come to their end
RivalWorks ==
    /\ rivalPc = "working"
    /\ rivalPc' = "cleanup"
    /\ UNCHANGED rivalDel
    /\ RivalUnchanged

\* the second run's deferred cleanup, lines 568-579: Delete of the service
\* and of the pod by name, in whatever step the first run is
RivalCleanup ==
    /\ rivalPc = "cleanup"
    /\ \E expired \in BOOLEAN :
       \E svcOut \in DeleteOutcomes(SameOrigin => svcExists, expired) :
       \E podOut \in DeleteOutcomes(SameOrigin => podExists, expired) :
          /\ svcExists' = (svcExists /\ ~(SameOrigin /\ svcOut = "Deleted"))
          /\ podExists' = (podExists /\ ~(SameOrigin /\ podOut = "Deleted"))
          /\ podReady' = (podReady /\ ~(SameOrigin /\ podOut = "Deleted"))
          /\ rivalDel' = <<svcOut, podOut>>
    /\ rivalPc' = "done"
    /\ UNCHANGED <<inputVars, pc, result, detectVars, started, trace, createVars,
                   dvExists, dvStatus, ctxVars, pollVars, cleanupVars>>
    /\ UNCHANGED <<matchVars, streamVars, sizeVars>>

\* the first run within its deadline, and the second
NextTwoRuns ==
    \/ UploadStat
    \/ UploadDetect
    \/ createServerPod
    \/ waitPodReady
    \/ createServerService
    \/ streamImageToPod
    \/ createDataVolume
    \/ waitForDataVolume
    \/ cleanup
    \/ PodBecomesReady
    \/ DVController
    \/ RivalCreatePod
    \/ RivalWaitPodReady
    \/ RivalCreateService
    \/ RivalWorks
    \/ RivalCleanup

SpecTwoRuns == InitTwoRuns /\ [][NextTwoRuns]_vars

\* ------------------------------------------------------------- GetPVCSize
\* fmt.Sprintf("%dGi", sizeGi)
FormatGi(n) == ToString(n) \o "Gi"

\* GetPVCSize, lines 584-594: float64(size) * 1.2 / Gi, truncated by int64(),
\* plus one; on the sizes sampled the float64 arithmetic is exact
GetPVCSize(in) ==
    IF ~in.statOK THEN [done |-> TRUE, err |-> TRUE, val |-> ""]
    ELSE LET sizeGi == ((6 * in.units) \div (5 * UnitsPerGi)) + 1
         IN  [done |-> TRUE, err |-> FALSE, val |-> FormatGi(sizeGi)]

InitSize ==
    /\ InitNoWorkflow
    /\ InitMatchIdle
    /\ InitStreamIdle
    /\ InitRivalIdle
    /\ sizeIn \in {[statOK |-> FALSE, units |-> 0]}
                    \cup {[statOK |-> TRUE, units |-> n] : n \in 0..MaxSizeUnits}
    /\ sizeOut = NoSize

\* one call GetPVCSize(imagePath)
CallGetPVCSize ==
    /\ ~sizeOut.done
    /\ sizeOut' = GetPVCSize(sizeIn)
    /\ UNCHANGED <<workflowVars, matchVars, streamVars, rivalVars, sizeIn>>

NextSize == CallGetPVCSize

SpecSize == InitSize /\ [][NextSize]_vars

\* ------------------------------------------------------------ the claims
Range(f) == {f[i] : i \in DOMAIN f}
IsPrefix(a, b) == Len(a) <= Len(b) /\ \A i \in 1..Len(a) : a[i] = b[i]
Last(q) == q[Len(q)]
\* uploadViaHTTPSource was entered and Upload has returned
HTTPPathReturned == pc = "Returned" /\ started # <<>>
\* waitForDataVolume has returned
WaitReturned == Len(trace) = Len(Steps)
NonTerminal(st) == ~st.hasStatus \/ st.phase \notin {DVPhaseSucceeded, DVPhaseFailed}
IsFailed(st) == st.hasStatus /\ st.phase = DVPhaseFailed

\* C1: every invocation of uploadViaHTTPSource, whatever step fails (a failure
\* or readiness timeout of createServerPod included), runs cleanup exactly
\* once before Upload returns.
C1_CleanupOnEveryExit ==
    HTTPPathReturned => cleanupRuns = 1

\* C2: the steps run in the fixed order createServerPod, createServerService,
\* streamImageToPod, createDataVolume, waitForDataVolume; a step starts only
\* after every earlier step returned success; the first failing step makes
\* Upload return an error with no later step started (no DataVolume Create
\* unless the push succeeded) and the failed step is not started again.
C2_StepOrder ==
    /\ IsPrefix(started, Steps)
    /\ Len(trace) <= Len(started) /\ Len(started) <= Len(trace) + 1
    /\ \A i \in 1..Len(trace) : trace[i].step = Steps[i]
    /\ \A i \in 1..Len(started) : \A j \in 1..(i - 1) : j <= Len(trace) /\ trace[j].ok
    /\ "datavolume" \in createCalls => Len(trace) >= 3 /\ trace[3].ok
    /\ \A i \in 1..Len(trace) :
          ~trace[i].ok =>
             /\ i = Len(trace) /\ i = Len(started)
             /\ pc \in {"cleanup", "Returned"}
             /\ result.kind \notin {"none", "nil"}
    /\ HTTPPathReturned =>
          (result.kind = "nil" <=> (WaitReturned /\ \A i \in 1..Len(trace) : trace[i].ok))

\* C2 witness: the push failed, Upload returned, no DataVolume was submitted
C2_Witness ==
    /\ pc = "Returned"
    /\ Len(trace) = 3 /\ ~trace[3].ok /\ trace[3].step = "streamImageToPod"
    /\ "datavolume" \notin createCalls
    /\ result.kind = "error"

\* C3: when the detector returns false, Upload takes the standard path and
\* fails with the not-implemented error; no pod, service or DataVolume Create
\* is ever issued and no step of the HTTP path starts.
C3_StandardPath ==
    (detected.err = "nil" /\ ~detected.val) =>
       /\ pc \in {"uploadViaProxy", "Returned"}
       /\ pc = "Returned" => result = Err("notImplemented", "")
       /\ createCalls = {}
       /\ started = <<>>
       /\ cleanupRuns = 0

\* C3 witness: a namespace with the label but no Primary definition took the
\* standard path and Upload returned
C3_Witness ==
    /\ pc = "Returned"
    /\ detected.err = "nil" /\ ~detected.val
    /\ Len(apiCalls) = 3
    /\ result.kind = "notImplemented"

C5_SuccessOnlySucceeded ==
    /\ [](/\ (WaitReturned /\ Last(trace).ok) =>
               /\ observed # <<>>
               /\ Last(observed).hasStatus
               /\ Last(observed).phase = DVPhaseSucceeded
          /\ \A i \in 1..(Len(observed) - 1) : NonTerminal(observed[i]))
    /\ [][(Len(observed') = Len(observed) + 1 /\ NonTerminal(Last(observed')))
             => (pc' = "waitForDataVolume" /\ result' = NoResult /\ trace' = trace)]_vars

\* C5 witness: success after a poll without status and two flapping phases
C5_Witness ==
    /\ WaitReturned /\ Last(trace).ok
    /\ Len(observed) = 3
    /\ observed[1] = NoStatus
    /\ observed[2].phase = "ImportInProgress"
    /\ Last(observed).phase = DVPhaseSucceeded

\* C6: when every poll until the import window (or the context) ends observes
\* a non-terminal state, waitForDataVolume fails with a timeout error that
\* carries no condition list and does not come from the "Failed" branch, and it
\* never reports success.
C6_TimeoutDistinct ==
    /\ (WaitReturned /\ result # GetDVError
           /\ \A i \in 1..Len(observed) : NonTerminal(observed[i])) =>
          /\ ~Last(trace).ok
          /\ result = Err("timeout", "waiting for DataVolume")
          /\ ~result.hasConds
    /\ result.kind = "timeout" =>
          /\ \A i \in 1..Len(observed) : ~IsFailed(observed[i])
          /\ ~result.hasConds

\* C6 witness: the import window ran out (the caller's deadline did not) over
\* polls that saw flapping phases
C6_Witness ==
    /\ WaitReturned
    /\ ~ctxExpired
    /\ Len(observed) = MaxImportPolls
    /\ observed[1].phase = "ImportScheduled"
    /\ observed[2].phase = "ImportInProgress"
    /\ observed[3].phase = "ImportScheduled"
    /\ result.kind = "timeout"

\* C7: when the caller's deadline elapses while waitForDataVolume polls a job
\* in phase "ImportInProgress", Upload returns a timeout error and the pod and
\* the service have been deleted when it returns, given that the API carries
\* out every Delete that reaches it with a context that has not expired.
C7_DeadlineCleanup ==
    (/\ pc = "Returned"
     /\ deadlineAt = [pc |-> "waitForDataVolume", phase |-> "ImportInProgress"]
     /\ observed # <<>> /\ Last(observed).phase = "ImportInProgress"
     /\ "ApiError" \notin Range(delOutcomes)) =>
       /\ result.kind = "timeout"
       /\ ~podExists /\ ~svcExists

\* C8: cleanup issues both Deletes, service then pod, whatever the outcome of
\* the first, and no outcome of either changes what Upload returns.
C8_CleanupBestEffort ==
    /\ [](cleanupRuns >= 1 =>
             /\ cleanupRuns = 1
             /\ delIssued = <<"service", "pod">>
             /\ Len(delOutcomes) = 2)
    /\ [][pc = "cleanup" => result' = result]_vars

\* C8 witness: Upload returned success although the service Delete failed; the
\* pod Delete was still issued and carried out
C8_Witness ==
    /\ pc = "Returned"
    /\ result = Success
    /\ delIssued = <<"service", "pod">>
    /\ delOutcomes = <<"ApiError", "Deleted">>

\* C9: for a namespace without the marker label the detector returns false
\* without error, whatever network definitions exist, and issues no List.
C9_NoLabelFastPath ==
    (detected.err # "none" /\ ~nsResp.err /\ MarkerKey \notin DOMAIN nsResp.labels) =>
       /\ detected.val = FALSE
       /\ detected.err = "nil"
       /\ apiCalls = <<"getNamespace">>

\* C9 witness: no marker label, yet a matching Primary CUDN and a Primary UDN
C9_Witness ==
    /\ detected.err = "nil"
    /\ nsResp = NsOK([k \in {EnvKey} |-> "prod"])
    /\ cudnResp = ListOK(<<Def(Absent, "Primary", Absent, Absent, SelEnvProd)>>)
    /\ udnResp = ListOK(<<Def(Absent, Absent, "Primary", Absent, NoSel)>>)

\* a definition with a spec whose role is exactly "Primary" under layer2 or
\* layer3
PrimaryDef(d) == d.hasSpec /\ "Primary" \in {d.nl2, d.nl3, d.l2, d.l3}
Reverse(q) == [i \in 1..Len(q) |-> q[Len(q) + 1 - i]]

\* C10: with the marker label and both listings answered, the detector returns
\* true iff some CUDN has a Primary role and a namespace selector matching the
\* namespace's labels, or some UDN has a Primary role; the order of the lists
\* does not matter and a definition without a Primary role never counts.
C10_DetectIff ==
    (/\ detected.err # "none"
     /\ ~nsResp.err /\ MarkerKey \in DOMAIN nsResp.labels
     /\ cudnResp.status = "ok" /\ udnResp.status = "ok") =>
       /\ detected.err = "nil"
       /\ detected.val <=>
             \/ \E i \in DOMAIN cudnResp.items :
                   /\ PrimaryDef(cudnResp.items[i])
                   /\ selectorMatchesNamespace(cudnResp.items[i], nsResp.labels)
             \/ \E j \in DOMAIN udnResp.items : PrimaryDef(udnResp.items[j])
       /\ detected.val =
             namespaceHasPrimaryUDN(nsResp, ListOK(Reverse(cudnResp.items)),
                                    ListOK(Reverse(udnResp.items))).val

\* C10 witness: true through the second CUDN, after a Primary one whose
\* selector does not match
C10_Witness ==
    /\ detected.val
    /\ nsResp = NsOK([k \in {MarkerKey, EnvKey} |-> IF k = EnvKey THEN "prod" ELSE ""])
    /\ cudnResp = ListOK(<<Def(Absent, Absent, "Primary", Absent, SelEnvNotInProd),
                           Def(Absent, "Primary", Absent, Absent, SelEnvProd)>>)
    /\ udnResp = ListOK(<<Def(Absent, Absent, "Secondary", "primary", NoSel)>>)

\* a selector all of whose parts have the types the parser expects
PlainExpr(e) ==
    e.isMap /\ e.key # NonString /\ e.operator # NonString /\ NonString \notin e.values
PlainSelector(sel) ==
    /\ sel.present
    /\ \A k \in DOMAIN sel.matchLabels : sel.matchLabels[k] # NonString
    /\ \A i \in DOMAIN sel.matchExpressions : PlainExpr(sel.matchExpressions[i])
\* the equality constraints of a selector hold on a label map
EqualitiesHold(sel, ls) ==
    \A k \in DOMAIN sel.matchLabels : k \in DOMAIN ls /\ ls[k] = sel.matchLabels[k]
\* a set-based requirement holds on a label map, as the specification reads it
RequirementHolds(e, ls) ==
    \/ e.operator = "In" /\ e.key \in DOMAIN ls /\ ls[e.key] \in e.values
    \/ e.operator = "NotIn" /\ (e.key \notin DOMAIN ls \/ ls[e.key] \notin e.values)
    \/ e.operator = "Exists" /\ e.key \in DOMAIN ls
    \/ e.operator = "DoesNotExist" /\ e.key \notin DOMAIN ls
ConstraintsHold(sel, ls) ==
    /\ EqualitiesHold(sel, ls)
    /\ \A i \in DOMAIN sel.matchExpressions :
           RequirementHolds(sel.matchExpressions[i], ls)
\* a requirement the selector conversion accepts: In and NotIn carry at least
\* one value, Exists and DoesNotExist carry none
WellFormedExpr(e) ==
    /\ e.key # ""
    /\ \/ e.operator \in {"In", "NotIn"} /\ e.values # {}
       \/ e.operator \in {"Exists", "DoesNotExist"} /\ e.values = {}
WellFormedSelector(sel) ==
    \A i \in DOMAIN sel.matchExpressions : WellFormedExpr(sel.matchExpressions[i])

C12_StartIdempotent ==
    /\ [](\A i \in 1..MaxStarts :
            (Len(trace) >= 2 * i /\ \A j \in 1..(2 * i) : trace[j].ok)
                => /\ podExists /\ podReady /\ svcExists
                   /\ i > 1 => /\ createAnswers[2 * i - 1].out = "AlreadyExists"
                               /\ createAnswers[2 * i].out = "AlreadyExists")
    /\ [][/\ (pc = "createServerPod" /\ pc' # pc
                 /\ Last(createAnswers').out = "AlreadyExists")
             => (pc' = "waitPodReady" /\ result' = result
                    /\ podExists' /\ podReady' = podReady)
          /\ (pc = "createServerService" /\ pc' # pc
                 /\ Last(createAnswers').out = "AlreadyExists")
             => (Last(trace').ok /\ svcExists' /\ result' = result)
          /\ (pc = "waitPodReady" /\ pc' # pc /\ podReady /\ ~ctxExpired
                 /\ readyPolls < MaxReadyPolls)
             => (Last(trace').ok \/ result'.kind = "error")]_vars

\* the second start in a row has returned nil
C12_Witness ==
    /\ Len(trace) = 4
    /\ \A j \in 1..4 : trace[j].ok
    /\ createAnswers[3] = [kind |-> "pod", out |-> "AlreadyExists"]
    /\ createAnswers[4] = [kind |-> "service", out |-> "AlreadyExists"]
    /\ podExists /\ podReady /\ svcExists

\* the Create of the DataVolume was answered AlreadyExists
DVAlreadyExisted ==
    \E i \in DOMAIN createAnswers :
        createAnswers[i] = [kind |-> "datavolume", out |-> "AlreadyExists"]

\* C13: createDataVolume is not idempotent: when a DataVolume of the name
\* exists its Create fails, Upload returns that error without one poll of the
\* existing DataVolume, and no step of the run changes or removes it.
C13_SubmitNotIdempotent ==
    /\ [](DVAlreadyExisted
            => /\ Len(trace) = 4 /\ ~trace[4].ok
               /\ result = Err("error", "creating DataVolume")
               /\ "waitForDataVolume" \notin Range(started)
               /\ observed = <<>> /\ dvPolls = 0
               /\ dvExists)
    /\ [][(DVAlreadyExisted' /\ pc' # pc)
             => (dvExists' /\ dvStatus' = dvStatus /\ pc' \in {"cleanup", "Returned"})]_vars

\* Upload returned the AlreadyExists failure of createDataVolume
C13_Witness ==
    /\ pc = "Returned"
    /\ DVAlreadyExisted
    /\ result = Err("error", "creating DataVolume")
    /\ dvExists /\ dvStatus = DVStatus(DVPhaseSucceeded, <<>>)
    /\ observed = <<>>

\* the archive writer failed to deliver the complete file: it reported a
\* header or copy failure, or it ended the copy with fewer chunks in the entry
\* than the header declares
WriterFailed ==
    \/ wSent \in {"writing tar header", "copying file to tar"}
    \/ wSent = "nil" /\ delivered < declared

\* C14: streamImageToPod returns an error whenever the remote session failed,
\* and whenever the archive writer failed to deliver the complete file (header
\* failure, copy failure, or an entry shorter than declared), also when the
\* remote session reported success.
C14_BothHalves ==
    sPc = "returned"
        => /\ (sess = "ended" /\ ~sessOK) => sRet # "nil"
           /\ WriterFailed => sRet # "nil"

\* C15: two concurrent runs in one namespace are not isolated: the cleanup of
\* one run deletes the origin pod and service by their fixed name in whatever
\* step the other run is, its import wait on a non-terminal DataVolume
\* included; a Delete the API carried out leaves the other run without them.
C15_NotIsolated ==
    [][(rivalPc = "cleanup" /\ rivalPc' = "done")
          => /\ rivalDel'[1] \in {"Deleted", "NotFound"} => ~svcExists'
             /\ rivalDel'[2] \in {"Deleted", "NotFound"} => ~podExists'
             /\ UNCHANGED <<pc, dvExists, dvStatus, cleanupRuns>>]_vars

\* the other run's cleanup has deleted the origin pod and service while this
\* run polls its DataVolume, which is in a non-terminal phase
C15_Witness ==
    /\ pc = "waitForDataVolume" /\ dvPolls > 0 /\ cleanupRuns = 0
    /\ dvExists /\ NonTerminal(dvStatus) /\ dvStatus.hasStatus
    /\ rivalPc = "done" /\ rivalDel = <<"Deleted", "Deleted">>
    /\ ~podExists /\ ~svcExists

\* the least natural number n with n Gi >= 1.2 * size, for a size in units
LeastGi(units) ==
    CHOOSE n \in 0..(MaxSizeUnits + 1) :
        /\ n * 5 * UnitsPerGi >= 6 * units
        /\ \A m \in 0..(MaxSizeUnits + 1) : m * 5 * UnitsPerGi >= 6 * units => n <= m

\* C16: GetPVCSize returns "<N>Gi" where N is the least integer with
\* N Gi >= 1.2 * size, for every file size, 0 and the sizes whose 1.2-multiple
\* is a whole number of Gi included.
C16_LeastGi ==
    (sizeOut.done /\ ~sizeOut.err) => sizeOut.val = FormatGi(LeastGi(sizeIn.units))

\* some cluster-scoped definition of the answer has a Primary role and a
\* selector matching the namespace
CUDNMatches ==
    /\ cudnResp.status = "ok"
    /\ \E i \in DOMAIN cudnResp.items :
          /\ PrimaryDef(cudnResp.items[i])
          /\ selectorMatchesNamespace(cudnResp.items[i], nsResp.labels)
\* the detector ran on a namespace that carries the marker label
DetectedMarked ==
    detected.err # "none" /\ ~nsResp.err /\ MarkerKey \in DOMAIN nsResp.labels
UDNAnswers ==
    {ListNotFound, ListErr} \cup {ListOK(q) : q \in SeqsUpTo(UDNSamples, MaxItems)}

\* C17: as soon as one cluster-scoped Primary definition's selector matches,
\* the detector returns true without listing the namespace-scoped
\* definitions; neither their content nor a failure of their listing changes
\* the result.
C17_ShortCircuit ==
    (DetectedMarked /\ CUDNMatches)
        => /\ detected.val /\ detected.err = "nil"
           /\ apiCalls = <<"getNamespace", "listCUDN">>
           /\ \A u \in UDNAnswers :
                  namespaceHasPrimaryUDN(nsResp, cudnResp, u)
                      = [val |-> TRUE, err |-> "nil",
                         calls |-> <<"getNamespace", "listCUDN">>]

\* a matching Primary CUDN in second place, and a UDN listing that would fail
C17_Witness ==
    /\ DetectedMarked /\ CUDNMatches
    /\ Len(cudnResp.items) = 2 /\ ~PrimaryDef(cudnResp.items[1])
    /\ udnResp = ListErr
    /\ detected.val

\* the failure of Upload on a detector error, before any Create
DetectionFailed(err) ==
    /\ detected.err = err /\ ~detected.val
    /\ pc = "Returned"
    /\ result = Err("error", "detecting UDN")
    /\ started = <<>> /\ createCalls = {} /\ createAnswers = <<>>
    /\ cleanupRuns = 0

\* C18: a NotFound answer to either listing counts as an empty list (with the
\* cluster-scoped type absent a namespace-scoped Primary definition still
\* makes the namespace UDN-primary); any other listing error of either scope
\* makes the detector fail and Upload return before any Create.
C18_ListErrors ==
    DetectedMarked
        => /\ (cudnResp.status = "NotFound" /\ udnResp.status = "ok")
                => /\ detected.err = "nil"
                   /\ detected.val
                         <=> \E j \in DOMAIN udnResp.items : PrimaryDef(udnResp.items[j])
                   /\ apiCalls = <<"getNamespace", "listCUDN", "listUDN">>
           /\ (cudnResp.status # "Error" /\ ~CUDNMatches /\ udnResp.status = "NotFound")
                => /\ detected.err = "nil" /\ ~detected.val
                   /\ apiCalls = <<"getNamespace", "listCUDN", "listUDN">>
           /\ cudnResp.status = "Error"
                => DetectionFailed("listing CUDNs")
           /\ (cudnResp.status # "Error" /\ ~CUDNMatches /\ udnResp.status = "Error")
                => DetectionFailed("listing UDNs")

\* the cluster-scoped type is absent, the namespace-scoped listing fails, and
\* Upload has returned the detector's error
C18_Witness ==
    /\ DetectedMarked
    /\ cudnResp = ListNotFound /\ udnResp = ListErr
    /\ apiCalls = <<"getNamespace", "listCUDN", "listUDN">>
    /\ DetectionFailed("listing UDNs")

PresenceOps == {"Exists", "DoesNotExist"}
\* the selector with the value lists of its Exists and DoesNotExist
\* requirements emptied
StripPresenceValues(spec) ==
    [spec EXCEPT !.sel.matchExpressions =
        [i \in DOMAIN @ |-> IF @[i].operator \in PresenceOps
                            THEN [@[i] EXCEPT !.values = {}] ELSE @[i]]]
\* an Exists or DoesNotExist requirement that carries a string value
HasPresenceValues(sel) ==
    \E i \in DOMAIN sel.matchExpressions :
        /\ sel.matchExpressions[i].isMap
        /\ sel.matchExpressions[i].operator \in PresenceOps
        /\ sel.matchExpressions[i].values \ {NonString} # {}

RECURSIVE Transitions(_, _)
Transitions(obs, prev) ==
    IF obs = <<>> THEN <<>>
    ELSE IF ~Head(obs).hasStatus THEN Transitions(Tail(obs), prev)
    ELSE IF Head(obs).phase # prev
    THEN <<Head(obs).phase>> \o Transitions(Tail(obs), Head(obs).phase)
    ELSE Transitions(Tail(obs), prev)

\* C20: a phase is printed exactly at the polls whose phase differs from the
\* phase of the previous status-bearing poll (the empty phase at first): equal
\* phases in a row print once, a phase that recurs after another prints again.
C20_PhaseNotifications ==
    /\ notified = Transitions(observed, "")
    /\ lastPhase = (IF notified = <<>> THEN "" ELSE Last(notified))

\* a phase that recurred after a different one was printed again
C20_Witness ==
    /\ notified = <<"ImportScheduled", "ImportInProgress", "ImportScheduled">>
    /\ Len(observed) = 3

\* C21: on every return of streamImageToPod, success or failure, the archive
\* writer goroutine has terminated or goes on to terminate; it does not stay
\* blocked on a write into the pipe.
C21_WriterJoined ==
    (sPc = "returned" /\ wPc # "notStarted") ~> (wPc = "done")

\* C22: once the remote session has completed, streamImageToPod returns; the
\* receive from errChan does not wait forever, also when the session reported
\* success after it stopped reading before the whole archive was written.
C22_PushReturns ==
    (sess = "ended") ~> (sPc = "returned")

====
